---- MODULE Spec2Model ----
(***************************************************************************)
(* hledger financial insights: the report-parsing core (hledger.ts: the    *)
(* command gateway, extractAmount, dateToYearMonth and the three decoders) *)
(* and the three tool handlers of the MCP server (index.ts).               *)
(*                                                                         *)
(* Number representation.  A floatingPoint quantity is an integer count of *)
(* eighths (q stands for q/8): eighths are exact in binary floating point, *)
(* so q/8 * 100 is computed exactly by the program and the model agrees    *)
(* with it on every input.  A value the program has rounded to 2 decimals  *)
(* is an integer count of cents (c stands for c/100); a percentage or rate *)
(* rounded to 2 decimals is an integer count of hundredths of a percent.   *)
(* Strings the program slices or rewrites are sequences: a date string is  *)
(* a sequence of one-character strings, an account name the sequence of    *)
(* its colon-separated segments.                                           *)
(***************************************************************************)
EXTENDS Integers, Sequences, FiniteSets, TLC

VARIABLES
    pc,         \* position of the running tool handler
    tool,       \* the registered tool being served
    args,       \* the handler's arguments
    cmds,       \* report commands run so far in this invocation
    resp,       \* parsed JSON values hledgerJson has returned so far
    outcome,    \* completion of the decoder call: a value or a thrown error
    reply,      \* what the handler returned to the transport
    amounts,    \* extractAmount: the argument
    extracted,  \* extractAmount: the completion
    calDate,    \* dateToYearMonth: the calendar date both encodings stand for
    dateKeys,   \* dateToYearMonth: the keys of the two encodings
    earlier     \* history: a tool call that ended before the present one

vars == <<pc, tool, args, cmds, resp, outcome, reply,
          amounts, extracted, calDate, dateKeys, earlier>>

handlerVars == <<pc, tool, args, cmds, resp, outcome, reply>>
amountVars  == <<amounts, extracted>>
dateVars    == <<calDate, dateKeys>>

----------------------------------------------------------------------------
(* JavaScript primitives                                                   *)

Min(a, b) == IF a < b THEN a ELSE b

\* Math.abs
Abs(x) == IF x < 0 THEN -x ELSE x

\* Math.round(num / den) for den > 0: the nearest integer, a tie going to
\* the larger one (towards +Infinity), i.e. floor(num/den + 1/2).
MathRound(num, den) ==
    (num \div den) + (IF 2 * (num % den) >= den THEN 1 ELSE 0)

\* num / den lies exactly halfway between two integers (den > 0).
Halfway(num, den) == 2 * (num % den) = den

----------------------------------------------------------------------------
(* JavaScript Numbers: IEEE 754 binary64 arithmetic                        *)

\* Every operation on Numbers gives the Number nearest to the exact result,
\* a tie going to the even mantissa.  Mantissas have 53 bits, so naturals
\* are kept as sequences of 15-bit limbs, lowest limb first, without zero
\* limbs at the top; zero is the empty sequence.
Limb == 32768

BigOfInt(n) ==
    IF n = 0 THEN <<>>
    ELSE IF n < Limb THEN <<n>>
    ELSE IF n < Limb * Limb THEN <<n % Limb, n \div Limb>>
    ELSE <<n % Limb, (n \div Limb) % Limb, n \div (Limb * Limb)>>

RECURSIVE BigToInt(_)
BigToInt(a) == IF a = <<>> THEN 0 ELSE a[1] + Limb * BigToInt(Tail(a))

RECURSIVE BigNorm(_)
BigNorm(a) ==
    IF a = <<>> \/ a[Len(a)] # 0 THEN a ELSE BigNorm(SubSeq(a, 1, Len(a) - 1))

BigLimb(a, i) == IF i <= Len(a) THEN a[i] ELSE 0

\* a < b
RECURSIVE BigLessFrom(_, _, _)
BigLessFrom(a, b, i) ==
    IF i = 0 THEN FALSE
    ELSE IF a[i] # b[i] THEN a[i] < b[i]
    ELSE BigLessFrom(a, b, i - 1)

BigLess(a, b) ==
    IF Len(a) # Len(b) THEN Len(a) < Len(b) ELSE BigLessFrom(a, b, Len(a))

RECURSIVE BigAddFrom(_, _, _, _)
BigAddFrom(a, b, i, carry) ==
    IF i > Len(a) /\ i > Len(b)
    THEN (IF carry = 0 THEN <<>> ELSE <<carry>>)
    ELSE LET t == BigLimb(a, i) + BigLimb(b, i) + carry
         IN  <<t % Limb>> \o BigAddFrom(a, b, i + 1, t \div Limb)

BigAdd(a, b) == BigAddFrom(a, b, 1, 0)

\* a - b for a >= b
RECURSIVE BigSubFrom(_, _, _, _)
BigSubFrom(a, b, i, borrow) ==
    IF i > Len(a) THEN <<>>
    ELSE LET t == a[i] - BigLimb(b, i) - borrow
         IN  <<t % Limb>> \o BigSubFrom(a, b, i + 1, IF t < 0 THEN 1 ELSE 0)

BigSub(a, b) == BigNorm(BigSubFrom(a, b, 1, 0))

\* a * k for 0 <= k <= Limb
RECURSIVE BigMulFrom(_, _, _, _)
BigMulFrom(a, k, i, carry) ==
    IF i > Len(a) THEN (IF carry = 0 THEN <<>> ELSE <<carry>>)
    ELSE LET t == a[i] * k + carry
         IN  <<t % Limb>> \o BigMulFrom(a, k, i + 1, t \div Limb)

BigMulInt(a, k) == IF k = 0 THEN <<>> ELSE BigMulFrom(a, k, 1, 0)

\* quotient and remainder of a by k, 0 < k <= Limb
RECURSIVE BigDivFrom(_, _, _, _)
BigDivFrom(a, k, i, rem) ==
    IF i = 0 THEN [q |-> <<>>, r |-> rem]
    ELSE LET t    == rem * Limb + a[i]
             rest == BigDivFrom(a, k, i - 1, t % k)
         IN  [q |-> Append(rest.q, t \div k), r |-> rest.r]

BigDivInt(a, k) ==
    LET d == BigDivFrom(a, k, Len(a), 0) IN [q |-> BigNorm(d.q), r |-> d.r]

\* a * 2^n and floor(a / 2^n)
BigShl(a, n) ==
    IF a = <<>> THEN <<>>
    ELSE [i \in 1 .. (n \div 15) |-> 0] \o BigMulInt(a, 2 ^ (n % 15))

BigShr(a, n) ==
    IF n \div 15 >= Len(a) THEN <<>>
    ELSE BigDivInt(SubSeq(a, (n \div 15) + 1, Len(a)), 2 ^ (n % 15)).q

BigBitLen(a) ==
    IF a = <<>> THEN 0
    ELSE 15 * (Len(a) - 1)
         + (CHOOSE k \in 1 .. 15 : 2 ^ (k - 1) <= a[Len(a)] /\ a[Len(a)] < 2 ^ k)

BigOdd(a) == a # <<>> /\ a[1] % 2 = 1

\* The quotient limb floor(r / d) for r < d * Limb, d with a top limb of at
\* least Limb / 2: the estimate from the leading limbs is at most 2 too large.
BigQuotientLimb(r, d) ==
    LET n   == Len(d)
        est == Min(Limb - 1, (BigLimb(r, n + 1) * Limb + BigLimb(r, n)) \div d[n])
    IN  IF ~BigLess(r, BigMulInt(d, est)) THEN est
        ELSE IF ~BigLess(r, BigMulInt(d, est - 1)) THEN est - 1
        ELSE est - 2

\* Long division of the limbs i .. Len(a) of a by d, from the top limb down.
RECURSIVE BigDivLimbs(_, _, _)
BigDivLimbs(a, d, i) ==
    IF i > Len(a) THEN [q |-> <<>>, r |-> <<>>]
    ELSE LET h     == BigDivLimbs(a, d, i + 1)
             r     == BigNorm(<<a[i]>> \o h.r)
             digit == BigQuotientLimb(r, d)
         IN  [q |-> BigNorm(<<digit>> \o h.q), r |-> BigSub(r, BigMulInt(d, digit))]

\* quotient and remainder of a by d, d of two limbs or more
BigDivMod(a, d) ==
    LET t  == 15 * Len(d) - BigBitLen(d)
        qr == BigDivLimbs(BigShl(a, t), BigShl(d, t), 1)
    IN  [q |-> qr.q, r |-> BigShr(qr.r, t)]

\* A Number: neg, mant, exp stand for (-1)^neg * mant * 2^exp, with
\* 2^52 <= mant < 2^53, or mant = 0 (and exp = 0) for zero.
DoubleZero == [neg |-> FALSE, mant |-> <<>>, exp |-> 0]

\* The Number nearest to (q + f) * 2^e, ties to the even mantissa, where
\* 0 <= f < 1 and f > 0 iff sticky; q has at least 54 bits when sticky.
RoundToDouble(neg, q, sticky, e) ==
    IF q = <<>> THEN DoubleZero
    ELSE LET len == BigBitLen(q)
         IN  IF len <= 53
             THEN [neg |-> neg, mant |-> BigShl(q, 53 - len), exp |-> e - (53 - len)]
             ELSE LET k     == len - 53
                      m     == BigShr(q, k)
                      rest  == BigSub(q, BigShl(m, k))
                      half  == BigShl(<<1>>, k - 1)
                      up    == \/ BigLess(half, rest)
                               \/ rest = half /\ (sticky \/ BigOdd(m))
                      mant  == IF up THEN BigAdd(m, <<1>>) ELSE m
                  IN  IF BigBitLen(mant) = 54
                      THEN [neg |-> neg, mant |-> BigShr(mant, 1), exp |-> e + k + 1]
                      ELSE [neg |-> neg, mant |-> mant, exp |-> e + k]

\* The Number nearest to (n / d) * 2^e for naturals n and d > 0.
DoubleOfRatio(neg, n, d, e) ==
    IF n = <<>> THEN DoubleZero
    ELSE LET s  == 55 - (BigBitLen(n) - BigBitLen(d))
             qr == IF Len(d) = 1
                   THEN LET t == BigDivInt(BigShl(n, s), d[1])
                        IN  [q |-> t.q, sticky |-> t.r # 0]
                   ELSE LET t == BigDivMod(BigShl(n, s), d)
                        IN  [q |-> t.q, sticky |-> t.r # <<>>]
         IN  RoundToDouble(neg, qr.q, qr.sticky, e - s)

\* The Number of a literal with two decimals, given in hundredths.
DoubleOfCents(c) == DoubleOfRatio(c < 0, BigOfInt(Abs(c)), <<100>>, 0)

\* x + y
DoubleAdd(x, y) ==
    IF x.mant = <<>> THEN y
    ELSE IF y.mant = <<>> THEN x
    ELSE LET e  == Min(x.exp, y.exp)
             a  == BigShl(x.mant, x.exp - e)
             b  == BigShl(y.mant, y.exp - e)
         IN  IF x.neg = y.neg THEN RoundToDouble(x.neg, BigAdd(a, b), FALSE, e)
             ELSE IF BigLess(a, b) THEN RoundToDouble(y.neg, BigSub(b, a), FALSE, e)
             ELSE RoundToDouble(x.neg, BigSub(a, b), FALSE, e)

\* x - y
DoubleSub(x, y) == DoubleAdd(x, [y EXCEPT !.neg = ~y.neg])

\* x * k for an integer 0 < k <= Limb
DoubleMulInt(x, k) == RoundToDouble(x.neg, BigMulInt(x.mant, k), FALSE, x.exp)

\* x / y for y # 0
DoubleDiv(x, y) == DoubleOfRatio(x.neg # y.neg, x.mant, y.mant, x.exp - y.exp)

\* x / k for an integer k > 0
DoubleDivInt(x, k) == DoubleOfRatio(x.neg, x.mant, BigOfInt(k), x.exp)

\* Math.round(x): floor(x + 1/2), computed exactly.
MathRoundDouble(x) ==
    IF x.mant = <<>> THEN 0
    ELSE IF x.exp >= 0 THEN (IF x.neg THEN -1 ELSE 1) * BigToInt(BigShl(x.mant, x.exp))
    ELSE LET k    == -x.exp
             half == BigShl(<<1>>, k - 1)
         IN  IF ~x.neg THEN BigToInt(BigShr(BigAdd(x.mant, half), k))
             ELSE IF ~BigLess(half, x.mant) THEN 0
             ELSE -BigToInt(BigShr(BigAdd(BigSub(x.mant, half),
                                          BigSub(BigShl(<<1>>, k), <<1>>)), k))

----------------------------------------------------------------------------
(* Completions                                                             *)

\* Nothing yet.
Pending == [type |-> "pending"]

\* No tool call is in progress.
IdleHandler ==
    /\ pc = "idle" /\ tool = "none" /\ args = [period |-> ""]
    /\ cmds = <<>> /\ resp = <<>> /\ outcome = Pending /\ reply = Pending

\* No tool call is remembered.
NoInvocation == [tool |-> "none"]

\* Completion records of a call.
Return(v) == [type |-> "return", value |-> v]
Throw(e)  == [type |-> "throw", error |-> e]

TypeError(msg) == [class |-> "TypeError", message |-> <<msg>>]
SyntaxError(msg) == [class |-> "SyntaxError", message |-> <<msg>>]
RangeError(msg) == [class |-> "RangeError", message |-> <<msg>>]

----------------------------------------------------------------------------
(* extractAmount                                                           *)

\* An amount entry as hledger emits it (findings, "Amount extraction"), and
\* the two ways an entry can lack the quantity the extractor reads.
Amount(q) == [acommodity |-> "$", aquantity |-> [floatingPoint |-> q]]
NoQuantity == [acommodity |-> "$"]
NoFloatingPoint == [acommodity |-> "$", aquantity |-> [decimalPlaces |-> 2]]

\* A call that returned NaN.
ReturnNaN == [type |-> "NaN"]

\* A Number of a result: NaN, or a finite value (in the unit of its field:
\* cents for amounts, hundredths of a percent for rates).
NaN == [nan |-> TRUE]
Num(n) == [nan |-> FALSE, n |-> n]

\* Math.abs, +, - and > 0 on these Numbers: NaN in gives NaN out, and a
\* comparison with NaN is false.
MathAbs(x) == IF x.nan THEN NaN ELSE Num(Abs(x.n))
Plus(x, y) == IF x.nan \/ y.nan THEN NaN ELSE Num(x.n + y.n)
Minus(x, y) == IF x.nan \/ y.nan THEN NaN ELSE Num(x.n - y.n)
Positive(x) == ~x.nan /\ x.n > 0

\* Math.round(floatingPoint * 100) / 100 of the quantity q/8, in cents.
RoundQuantity_HalfAwayFromZero(q) ==
    IF q >= 0 THEN MathRound(100 * q, 8) ELSE -MathRound(-100 * q, 8)

RoundQuantity(q) == MathRound(100 * q, 8)

extractAmount_LastEntry(a) ==
    IF Len(a) = 0 THEN Return(0)
    ELSE IF "aquantity" \notin DOMAIN a[Len(a)]
         THEN Throw(TypeError("Cannot read properties of undefined"))
         ELSE IF "floatingPoint" \notin DOMAIN a[Len(a)].aquantity
              THEN ReturnNaN
              ELSE Return(RoundQuantity(a[Len(a)].aquantity.floatingPoint))

extractAmount(a) ==
    IF Len(a) = 0 THEN Return(0)
    ELSE IF "aquantity" \notin DOMAIN a[1]
         THEN Throw(TypeError("Cannot read properties of undefined"))
         ELSE IF "floatingPoint" \notin DOMAIN a[1].aquantity
              THEN ReturnNaN
              ELSE Return(RoundQuantity(a[1].aquantity.floatingPoint))

\* The Number a call of extractAmount that did not throw gave.
AmountOf(a) ==
    LET c == extractAmount(a) IN IF c.type = "NaN" THEN NaN ELSE Num(c.value)

----------------------------------------------------------------------------
(* dateToYearMonth                                                         *)

JsString(chars) == [typeof |-> "string", chars |-> chars]
JsNumber(n) == [typeof |-> "number", n |-> n]

\* String.prototype.slice(0, n)
SliceTo(s, n) == SubSeq(s, 1, Min(n, Len(s)))

DigitChar(d) == <<"0", "1", "2", "3", "4", "5", "6", "7", "8", "9">>[d + 1]

\* n >= 0 written with exactly w decimal digits (its low w digits).
RECURSIVE PadDigits(_, _)
PadDigits(n, w) ==
    IF w = 0 THEN <<>> ELSE Append(PadDigits(n \div 10, w - 1), DigitChar(n % 10))

\* The UTC calendar date of a day number counted from 1970-01-01 (proleptic
\* Gregorian calendar, as the Date object keeps it).
CivilFromDays(days) ==
    LET z   == days + 719468
        era == z \div 146097
        doe == z - era * 146097
        yoe == (doe - doe \div 1460 + doe \div 36524 - doe \div 146096) \div 365
        doy == doe - (365 * yoe + yoe \div 4 - yoe \div 100)
        mp  == (5 * doy + 2) \div 153
        d   == doy - (153 * mp + 2) \div 5 + 1
        m   == IF mp < 10 THEN mp + 3 ELSE mp - 9
    IN  [y |-> yoe + era * 400 + (IF m <= 2 THEN 1 ELSE 0), m |-> m, d |-> d]

\* A time value (milliseconds since 1970-01-01T00:00Z) is kept as the pair
\* day, ms with value = day * 86400000 + ms and 0 <= ms < 86400000, so that
\* no intermediate exceeds 32 bits.
\* The range of a Date's time value: 8.64e15 ms, which is 100000000 days, on
\* either side of 1970-01-01.  new Date(v) of a v outside it is an invalid
\* Date.
MaxTimeDays == 100000000

ValidTime(t) ==
    /\ t.day >= -MaxTimeDays
    /\ t.day < MaxTimeDays \/ (t.day = MaxTimeDays /\ t.ms = 0)

\* Date.prototype.toISOString: YYYY-MM-DDTHH:mm:ss.sssZ, the year written
\* with a sign and six digits outside 0..9999; a RangeError for an invalid
\* Date.
toISOString(t) ==
    IF ~ValidTime(t) THEN Throw(RangeError("Invalid time value"))
    ELSE
    LET c    == CivilFromDays(t.day)
        year == IF c.y >= 0 /\ c.y <= 9999
                THEN PadDigits(c.y, 4)
                ELSE <<IF c.y < 0 THEN "-" ELSE "+">> \o PadDigits(Abs(c.y), 6)
    IN  Return(year \o <<"-">> \o PadDigits(c.m, 2) \o <<"-">> \o PadDigits(c.d, 2)
               \o <<"T">> \o PadDigits(t.ms \div 3600000, 2)
               \o <<":">> \o PadDigits((t.ms \div 60000) % 60, 2)
               \o <<":">> \o PadDigits((t.ms \div 1000) % 60, 2)
               \o <<".">> \o PadDigits(t.ms % 1000, 3) \o <<"Z">>)

\* new Date((contents - 2440587.5) * 86400000): contents - 2440587.5 is
\* (2 * contents - 4881175) half days.
JulianToUnixTime(n) ==
    LET halfDays == 2 * n - 4881175
    IN  [day |-> halfDays \div 2, ms |-> (halfDays % 2) * 43200000]

\* The key of a period date; the RangeError of toISOString leaves the
\* function as it is.
dateToYearMonth(contents) ==
    IF contents.typeof = "string"
    THEN Return(SliceTo(contents.chars, 7))
    ELSE LET iso == toISOString(JulianToUnixTime(contents.n))
         IN  IF iso.type = "throw" THEN iso ELSE Return(SliceTo(iso.value, 7))

\* The two encodings hledger emits for a period date: v1.51+ the ISO date
\* string, older versions the Modified Julian Day (day 0 is 1858-11-17, which
\* is day -40587 counted from 1970-01-01).
DaysFromCivil(y, m, d) ==
    LET yy  == IF m <= 2 THEN y - 1 ELSE y
        era == yy \div 400
        yoe == yy - era * 400
        doy == (153 * (IF m > 2 THEN m - 3 ELSE m + 9) + 2) \div 5 + d - 1
        doe == yoe * 365 + yoe \div 4 - yoe \div 100 + doy
    IN  era * 146097 + doe - 719468

ExactDate(D) ==
    [tag |-> "Exact",
     contents |-> JsString(PadDigits(D.y, 4) \o <<"-">> \o PadDigits(D.m, 2)
                           \o <<"-">> \o PadDigits(D.d, 2))]

ModifiedJulianDay(D) ==
    [tag |-> "ModifiedJulianDay",
     contents |-> JsNumber(DaysFromCivil(D.y, D.m, D.d) + 40587)]

----------------------------------------------------------------------------
(* Command gateway: hledger, hledgerJson                                   *)

\* What running the external tool did: status "ok" (exit 0 in time) with its
\* standard output, "exit" (non-zero exit status) or "timeout" (killed after
\* 5000 ms).  The standard output is JSON text of a value, or other text, of
\* some number of bytes; of the standard error only the number of bytes
\* matters.
JsonText(v, n) == [parses |-> TRUE, value |-> v, bytes |-> n]
OtherText(n) == [parses |-> FALSE, bytes |-> n]
Ran(text, err) == [status |-> "ok", stdout |-> text, stderr |-> err]
Failed(status) == [status |-> status]

\* The most bytes execSync buffers, standard output and standard error
\* counted together: the options give no maxBuffer, so it is Node's default
\* of 1024 * 1024.
MaxBuffer == 1048576

\* The bytes a run that exited 0 in time has written to its two pipes.
Buffered(run) == run.stdout.bytes + run.stderr

CommandFailed(cause) ==
    [class |-> "Error", message |-> <<"hledger command failed: ", cause>>]

\* execSync inside try/catch: any failure is rethrown as a new Error.
hledger_Rethrow(run) ==
    IF run.status # "ok"
    THEN Throw([class |-> "Error", message |-> <<run.status>>])
    ELSE IF Buffered(run) > MaxBuffer
    THEN Throw([class |-> "Error", message |-> <<"spawnSync /bin/sh ENOBUFS">>])
    ELSE Return(run.stdout)

\* execSync throws for a non-zero exit status, for the timeout and for
\* output beyond maxBuffer (ENOBUFS).
hledger(run) ==
    IF run.status # "ok"
    THEN Throw(CommandFailed(run.status))
    ELSE IF Buffered(run) > MaxBuffer
    THEN Throw(CommandFailed("spawnSync /bin/sh ENOBUFS"))
    ELSE Return(run.stdout)

\* JSON.parse(hledger(args + " -O json")): a parse failure leaves as the
\* SyntaxError JSON.parse throws.
hledgerJson_EmptyOnFailure(run) ==
    IF hledger(run).type = "return" /\ run.stdout.parses
    THEN Return(run.stdout.value)
    ELSE Return([json |-> "array", items |-> <<<<>>, <<>>>>])

hledgerJson(run) ==
    LET output == hledger(run)
    IN  IF output.type = "throw" THEN output
        ELSE IF ~output.value.parses
             THEN Throw(SyntaxError("Unexpected token in JSON"))
             ELSE Return(output.value.value)

\* Parsed JSON: an array or an object.
JsArray(items) == [json |-> "array", items |-> items]
JsObject(fields) == [json |-> "object", fields |-> fields]

----------------------------------------------------------------------------
(* Shared helpers of the decoders                                          *)

\* An account name is the sequence of its colon-separated segments.
\* fullName.replace(/^expenses:/, ""): the pattern needs the colon, so a
\* lone "expenses" is not touched.
StripExpenses_AnySegment(fullName) ==
    SelectSeq(fullName, LAMBDA segment : segment # "expenses")

StripExpenses(fullName) ==
    IF Len(fullName) >= 2 /\ fullName[1] = "expenses"
    THEN Tail(fullName)
    ELSE fullName

\* total > 0 ? Math.round((amount / total) * 10000) / 100 : 0, in hundredths
\* of a percent.  total > 0 is false for NaN; a NaN amount gives NaN.
\* The quotient and the product are Numbers, each rounded to 53 bits.  When
\* the exact value of part / whole * 10000 is not halfway between two
\* integers it is at least 1 / (2 * whole) away from halfway, more than these
\* roundings can move it (below 2^-50 of its size), and Math.round gives the
\* integer nearest to the exact value; a halfway value is computed in Number
\* arithmetic, where it can come out just below halfway.
Percentage(part, whole) ==
    IF Positive(whole)
    THEN IF part.nan THEN NaN
         ELSE IF Halfway(part.n * 10000, whole.n)
         THEN Num(MathRoundDouble(DoubleMulInt(DoubleDiv(DoubleOfCents(part.n),
                                                         DoubleOfCents(whole.n)),
                                               10000)))
         ELSE Num(MathRound(part.n * 10000, whole.n))
    ELSE Num(0)

\* Math.round(x * 100) / 100 of a Number x given in cents.
RoundCents(x) == IF x.nan THEN NaN ELSE Num(MathRound(x.n * 100, 100))

\* Whether extractAmount throws on some list of the sequence.
AnyThrows(lists) ==
    \E k \in 1 .. Len(lists) : extractAmount(lists[k]).type = "throw"

FirstThrow(lists) ==
    extractAmount(lists[CHOOSE k \in 1 .. Len(lists) :
                          /\ extractAmount(lists[k]).type = "throw"
                          /\ \A j \in 1 .. k - 1 : extractAmount(lists[j]).type # "throw"])

----------------------------------------------------------------------------
(* getSpendingBreakdown                                                    *)

\* The command line of the balance report.
BreakdownCommand(a) ==
    [report |-> "bal",
     account |-> IF a.accountFilter # "" THEN <<"expenses", a.accountFilter>>
                 ELSE <<"expenses">>,
     depth |-> IF a.depth # 0 THEN <<"--depth", a.depth>> ELSE <<>>,
     period |-> <<"-p", a.period>>,
     flags |-> <<"-S", "-O", "json">>]

\* A row of the flat report: [fullName, displayName, depth, amounts].
BalRow(fullName, amts) == <<fullName, fullName, Len(fullName), amts>>

\* One category of the result, from one row.
Category(row, total) ==
    LET amount == MathAbs(AmountOf(row[4]))
    IN  [name |-> StripExpenses(row[1]),
         amount |-> amount,
         percentage |-> Percentage(amount, total)]

\* The decoding of the parsed report (lines 94-113).
DecodeBreakdown(a, result) ==
    IF result.json # "array"
    THEN Throw(TypeError("result is not iterable"))
    ELSE LET rows   == result.items[1]
             totals == result.items[2]
             lists  == <<totals>> \o [k \in 1 .. Len(rows) |-> rows[k][4]]
         IN  IF AnyThrows(lists) THEN FirstThrow(lists)
             ELSE LET total == MathAbs(AmountOf(totals))
                  IN  Return([categories |-> [k \in 1 .. Len(rows) |-> Category(rows[k], total)],
                              total |-> total,
                              period |-> a.period])

----------------------------------------------------------------------------
(* getFinancialTrends                                                      *)

IntervalFlag(interval) ==
    CASE interval = "monthly" -> "M"
      [] interval = "weekly" -> "W"
      [] interval = "quarterly" -> "Q"

TrendsCommand(a) ==
    [report |-> "is",
     interval |-> IntervalFlag(a.interval),
     period |-> <<"-p", a.period>>,
     flags |-> <<"-O", "json">>]

\* A row of a subreport and a subreport [name, {prDates, prRows, prTotals}, flag].
ReportRow(name, amts, total) ==
    [prrName |-> name, prrAmounts |-> amts, prrTotal |-> total, prrAverage |-> total]

Subreport(name, rows, total, increases) ==
    <<name,
      [prDates |-> <<>>, prRows |-> rows, prTotals |-> ReportRow(<<>>, <<>>, total)],
      increases>>

\* row.prrAmounts[i] ?? []  (i counted from 1 here)
ColumnAmounts_LastKnown(row, i) ==
    IF i <= Len(row.prrAmounts) THEN row.prrAmounts[i]
    ELSE IF row.prrAmounts = <<>> THEN <<>>
         ELSE row.prrAmounts[Len(row.prrAmounts)]

ColumnAmounts(row, i) ==
    IF i <= Len(row.prrAmounts) THEN row.prrAmounts[i] ELSE <<>>

\* let sum = 0; for (const row of rows) sum += extractAmount(...)
RECURSIVE ColumnSum(_, _)
ColumnSum(rows, i) ==
    IF rows = <<>> THEN Num(0)
    ELSE Plus(ColumnSum(SubSeq(rows, 1, Len(rows) - 1), i),
              AmountOf(ColumnAmounts(rows[Len(rows)], i)))

RECURSIVE ColumnSumOfAbs(_, _)
ColumnSumOfAbs(rows, i) ==
    IF rows = <<>> THEN Num(0)
    ELSE Plus(ColumnSumOfAbs(SubSeq(rows, 1, Len(rows) - 1), i),
              MathAbs(AmountOf(ColumnAmounts(rows[Len(rows)], i))))

\* Math.abs(Math.round(sum * 100) / 100) of one subreport's column.
PeriodTotal_AbsEachRow(rows, i) == MathAbs(RoundCents(ColumnSumOfAbs(rows, i)))

PeriodTotal(rows, i) == MathAbs(RoundCents(ColumnSum(rows, i)))

\* One element of periods (lines 156-175).
PeriodTrend(date, revenueRows, expenseRows, i) ==
    LET income   == PeriodTotal(revenueRows, i)
        expenses == PeriodTotal(expenseRows, i)
    IN  [date |-> date,
         income |-> income,
         expenses |-> expenses,
         net |-> RoundCents(Minus(income, expenses))]

\* The amount lists the loops read, in the order they read them.
RECURSIVE ColumnLists(_, _, _)
ColumnLists(revenueRows, expenseRows, n) ==
    IF n = 0 THEN <<>>
    ELSE ColumnLists(revenueRows, expenseRows, n - 1)
         \o [k \in 1 .. Len(revenueRows) |-> ColumnAmounts(revenueRows[k], n)]
         \o [k \in 1 .. Len(expenseRows) |-> ColumnAmounts(expenseRows[k], n)]

\* The keys of the columns listed newest first.
PeriodDates_Descending(cbrDates) ==
    [k \in 1 .. Len(cbrDates) |->
        dateToYearMonth(cbrDates[Len(cbrDates) + 1 - k][1].contents)]

\* const dates = cbr.cbrDates.map((pair) => dateToYearMonth(pair[0].contents))
PeriodDates(cbrDates) ==
    [k \in 1 .. Len(cbrDates) |-> dateToYearMonth(cbrDates[k][1].contents)]

\* The decoding of the parsed report (lines 148-177).
DecodeTrends(a, result) ==
    IF result.json # "object" \/ "cbrDates" \notin DOMAIN result.fields
    THEN Throw(TypeError("Cannot read properties of undefined (reading 'map')"))
    ELSE LET cbr   == result.fields
             dates == PeriodDates(cbr.cbrDates)
         IN  IF \E k \in 1 .. Len(dates) : dates[k].type = "throw"
             THEN dates[CHOOSE k \in 1 .. Len(dates) :
                           /\ dates[k].type = "throw"
                           /\ \A j \in 1 .. k - 1 : dates[j].type # "throw"]
             ELSE IF Len(cbr.cbrSubreports) < 2
             THEN Throw(TypeError("Cannot read properties of undefined (reading '1')"))
             ELSE LET revenueRows == cbr.cbrSubreports[1][2].prRows
                      expenseRows == cbr.cbrSubreports[2][2].prRows
                      lists == ColumnLists(revenueRows, expenseRows, Len(dates))
                  IN  IF AnyThrows(lists) THEN FirstThrow(lists)
                      ELSE Return([periods |->
                              [i \in 1 .. Len(dates) |->
                                  PeriodTrend(dates[i].value, revenueRows,
                                              expenseRows, i)]])

----------------------------------------------------------------------------
(* getFinancialSummary                                                     *)

\* periodArg
PeriodArg(a) == IF a.period # "" THEN <<"-p", a.period>> ELSE <<>>

\* The three commands, in the order the function runs them.
SummaryCommands(a) ==
    << [report |-> "bs", period |-> PeriodArg(a), flags |-> <<"-O", "json">>],
       [report |-> "is", period |-> PeriodArg(a), flags |-> <<"-O", "json">>],
       [report |-> "bal", account |-> <<"expenses">>, depth |-> <<"--depth", 2>>,
        period |-> PeriodArg(a), flags |-> <<"-S", "-O", "json">>] >>

\* The number of rows of the ranking report the summary keeps.
TopCount == 5

\* The sum of the rows' own totals.
RECURSIVE RowTotalSum(_)
RowTotalSum(rows) ==
    IF rows = <<>> THEN Num(0)
    ELSE Plus(RowTotalSum(Tail(rows)), AmountOf(rows[1].prrTotal))

\* extractAmount(bsResult.cbrTotals.prrTotal)
NetWorth_FromRows(bs) == RowTotalSum(bs.cbrSubreports[1][2].prRows)

NetWorth(bs) == AmountOf(bs.cbrTotals.prrTotal)

\* Math.abs(extractAmount(subreport.prTotals.prrTotal))
SubreportTotal(sub) == MathAbs(AmountOf(sub[2].prTotals.prrTotal))

\* totalIncome > 0 ? Math.round(((totalIncome - totalExpenses) / totalIncome)
\* * 10000) / 100 : 0.  As for Percentage: totalIncome > 0 is false for NaN,
\* Number arithmetic decides the values exactly halfway between two
\* integers, the others round as the exact value does.
SavingsRate(income, expenses) ==
    IF Positive(income)
    THEN IF expenses.nan THEN NaN
         ELSE IF Halfway((income.n - expenses.n) * 10000, income.n)
         THEN Num(MathRoundDouble(DoubleMulInt(
                  DoubleDiv(DoubleSub(DoubleOfCents(income.n),
                                      DoubleOfCents(expenses.n)),
                            DoubleOfCents(income.n)), 10000)))
         ELSE Num(MathRound((income.n - expenses.n) * 10000, income.n))
    ELSE Num(0)

\* Math.round((income - expenses) * 100) / 100
Cashflow(income, expenses) == RoundCents(Minus(income, expenses))

\* rows.slice(0, 5).map(...)
TopExpenses_FirstFour(rows) ==
    [k \in 1 .. Min(TopCount - 1, Len(rows)) |->
        [name |-> StripExpenses(rows[k][1]),
         amount |-> MathAbs(AmountOf(rows[k][4]))]]

TopExpenses(rows) ==
    [k \in 1 .. Min(TopCount, Len(rows)) |->
        [name |-> StripExpenses(rows[k][1]),
         amount |-> MathAbs(AmountOf(rows[k][4]))]]

\* The decoding of the three parsed reports (lines 220-261).
DecodeSummary(bsResult, isResult, balResult) ==
    IF bsResult.json # "object" \/ "cbrTotals" \notin DOMAIN bsResult.fields
    THEN Throw(TypeError("Cannot read properties of undefined (reading 'prrTotal')"))
    ELSE IF extractAmount(bsResult.fields.cbrTotals.prrTotal).type = "throw"
    THEN extractAmount(bsResult.fields.cbrTotals.prrTotal)
    ELSE IF isResult.json # "object" \/ "cbrSubreports" \notin DOMAIN isResult.fields
    THEN Throw(TypeError("Cannot read properties of undefined (reading '0')"))
    ELSE IF Len(isResult.fields.cbrSubreports) < 2
    THEN Throw(TypeError("Cannot read properties of undefined (reading '1')"))
    ELSE LET revenueReport  == isResult.fields.cbrSubreports[1]
             expensesReport == isResult.fields.cbrSubreports[2]
             totals == <<revenueReport[2].prTotals.prrTotal,
                         expensesReport[2].prTotals.prrTotal>>
         IN  IF AnyThrows(totals) THEN FirstThrow(totals)
             ELSE IF balResult.json # "array"
             THEN Throw(TypeError("balResult is not iterable"))
             ELSE LET rows == balResult.items[1]
                      kept == [k \in 1 .. Min(TopCount, Len(rows)) |-> rows[k][4]]
                  IN  IF AnyThrows(kept) THEN FirstThrow(kept)
                      ELSE LET totalIncome   == SubreportTotal(revenueReport)
                               totalExpenses == SubreportTotal(expensesReport)
                           IN  Return([netWorth |-> NetWorth(bsResult.fields),
                                       totalIncome |-> totalIncome,
                                       totalExpenses |-> totalExpenses,
                                       savingsRate |-> SavingsRate(totalIncome, totalExpenses),
                                       cashflow |-> Cashflow(totalIncome, totalExpenses),
                                       topExpenses |-> TopExpenses(rows)])

----------------------------------------------------------------------------
(* The tool handlers of the server                                         *)

Tools == {"spending-breakdown", "financial-trends", "financial-summary"}

\* The commands one call of the tool's decoder runs, in order.
Commands(t, a) ==
    CASE t = "spending-breakdown" -> <<BreakdownCommand(a)>>
      [] t = "financial-trends" -> <<TrendsCommand(a)>>
      [] t = "financial-summary" -> SummaryCommands(a)

\* The rest of the decoder, once every command has returned parsed JSON.
Decode(t, a, r) ==
    CASE t = "spending-breakdown" -> DecodeBreakdown(a, r[1])
      [] t = "financial-trends" -> DecodeTrends(a, r[1])
      [] t = "financial-summary" -> DecodeSummary(r[1], r[2], r[3])

\* result.periods.reduce((s, p) => s + p[f], 0): a Number, added up from
\* the first period on; NaN once a period's field is NaN.
RECURSIVE SumField(_, _)
SumField(periods, f) ==
    IF periods = <<>> THEN DoubleZero
    ELSE LET s == SumField(SubSeq(periods, 1, Len(periods) - 1), f)
             x == periods[Len(periods)][f]
         IN  IF "nan" \in DOMAIN s \/ x.nan THEN NaN
             ELSE DoubleAdd(s, DoubleOfCents(x.n))

\* The exact sum of the field, in cents, of periods without NaN.
RECURSIVE SumCents(_, _)
SumCents(periods, f) ==
    IF periods = <<>> THEN 0 ELSE periods[1][f].n + SumCents(Tail(periods), f)

\* Math.round(sum / n) of the Number sum of the field: NaN for a NaN sum;
\* else the sum and the quotient are rounded to 53 bits, which decides the
\* averages that are exactly halfway between two integers; the others round
\* as the exact average does.
AverageField(periods, f, n) ==
    IF \E k \in 1 .. Len(periods) : periods[k][f].nan THEN NaN
    ELSE IF Halfway(SumCents(periods, f), 100 * n)
    THEN Num(MathRoundDouble(DoubleDivInt(SumField(periods, f), n)))
    ELSE Num(MathRound(SumCents(periods, f), 100 * n))

\* The narration text of a successful call: the values interpolated into it.
Narration(t, a, result) ==
    CASE t = "spending-breakdown" ->
            [title |-> "Spending breakdown for", period |-> a.period,
             total |-> result.total,
             top |-> SubSeq(result.categories, 1, Min(5, Len(result.categories)))]
      [] t = "financial-trends" ->
            LET n == IF Len(result.periods) = 0 THEN 1 ELSE Len(result.periods)
            IN  [title |-> "Financial trends", interval |-> a.interval,
                 period |-> a.period,
                 avgIncome |-> AverageField(result.periods, "income", n),
                 avgExpenses |-> AverageField(result.periods, "expenses", n),
                 latestNet |-> IF Len(result.periods) > 0
                               THEN result.periods[Len(result.periods)].net
                               ELSE Num(0)]
      [] t = "financial-summary" ->
            [title |-> "Financial summary", period |-> a.period,
             netWorth |-> result.netWorth, income |-> result.totalIncome,
             expenses |-> result.totalExpenses, savingsRate |-> result.savingsRate,
             cashflow |-> result.cashflow,
             top |-> SubSeq(result.topExpenses, 1, Min(3, Len(result.topExpenses)))]

ErrorPrefix(t) ==
    CASE t = "spending-breakdown" -> "Error getting spending breakdown: "
      [] t = "financial-trends" -> "Error getting financial trends: "
      [] t = "financial-summary" -> "Error getting financial summary: "

\* The handler's try/catch around the decoder call: what it returns for a
\* decoder that returned a value, and for one that threw.
Handler_KeepsContentOnError(t, a, completion) ==
    IF completion.type = "return"
    THEN [structuredContent |-> completion.value,
          content |-> <<[type |-> "text", text |-> Narration(t, a, completion.value)]>>,
          isError |-> FALSE]
    ELSE [structuredContent |-> [error |-> completion.error.message],
          content |-> <<[type |-> "text",
                         text |-> [prefix |-> ErrorPrefix(t),
                                   message |-> completion.error.message]]>>,
          isError |-> TRUE]

Handler(t, a, completion) ==
    IF completion.type = "return"
    THEN [structuredContent |-> completion.value,
          content |-> <<[type |-> "text", text |-> Narration(t, a, completion.value)]>>,
          isError |-> FALSE]
    ELSE [content |-> <<[type |-> "text",
                         text |-> [prefix |-> ErrorPrefix(t),
                                   message |-> completion.error.message]]>>,
          isError |-> TRUE]

----------------------------------------------------------------------------
(* Inputs: arguments and what the external tool can answer                 *)

MaxRows == 3
MaxCols == 2
MaxSubRows == 2
MaxBalRows == 6

SeqsUpTo(S, n) == UNION {[1 .. k -> S] : k \in 0 .. n}

ToolArgs(t) ==
    CASE t = "spending-breakdown" ->
            {[period |-> "2025-10", depth |-> 2, accountFilter |-> ""],
             [period |-> "last 3 months", depth |-> 0, accountFilter |-> "food"]}
      [] t = "financial-trends" ->
            {[period |-> "last 6 months", interval |-> "monthly"],
             [period |-> "this year", interval |-> "quarterly"]}
      [] t = "financial-summary" ->
            {[period |-> ""], [period |-> "this month"]}

\* Flat balance reports.
FoodRow  == BalRow(<<"expenses", "food">>, <<Amount(-2400)>>)
RentRow  == BalRow(<<"expenses", "rent">>, <<Amount(-9600), Amount(7)>>)
RootRow  == BalRow(<<"expenses">>, <<Amount(-1)>>)
CashRow  == BalRow(<<"assets", "expenses", "cash">>, <<Amount(2401)>>)
EmptyRow == BalRow(<<"expenses", "misc">>, <<>>)
BadRow   == BalRow(<<"expenses", "fees">>, <<NoQuantity>>)
RefundRow == BalRow(<<"expenses", "refunds">>, <<Amount(800)>>)
UtilitiesRow == BalRow(<<"expenses", "utilities">>, <<Amount(563)>>)
TravelRow == BalRow(<<"expenses", "travel">>, <<Amount(2381)>>)
GasRow == BalRow(<<"expenses", "gas">>, <<Amount(13)>>)
WaterRow == BalRow(<<"expenses", "water">>, <<Amount(51)>>)
PetsRow == BalRow(<<"expenses", "pets">>, <<NoFloatingPoint>>)

BalTotals == {<<>>, <<Amount(0)>>, <<Amount(-12000)>>, <<Amount(12001)>>}

BreakdownReports ==
    {JsArray(<<rows, totals>>) :
        rows \in SeqsUpTo({FoodRow, RentRow, RootRow, CashRow, EmptyRow}, MaxRows),
        totals \in BalTotals}
    \cup {JsArray(<<<<FoodRow, BadRow>>, <<Amount(-12000)>>>>),
          JsArray(<<<<FoodRow>>, <<NoQuantity>>>>),
          JsArray(<<<<FoodRow, RefundRow>>, <<Amount(-1600)>>>>),
          JsArray(<<<<UtilitiesRow, TravelRow>>, <<Amount(2944)>>>>),
          JsArray(<<<<GasRow, WaterRow>>, <<Amount(64)>>>>),
          JsArray(<<<<FoodRow, PetsRow, EmptyRow>>, <<Amount(-12000)>>>>),
          JsArray(<<<<PetsRow>>, <<>>>>),
          JsArray(<<<<FoodRow, RentRow>>, <<NoFloatingPoint>>>>)}

RankingReports ==
    {JsArray(<<rows, <<Amount(-12000)>>>>) :
        rows \in SeqsUpTo({RootRow, RentRow}, MaxBalRows)}
    \cup {JsArray(<<<<BadRow, FoodRow>>, <<>>>>),
          JsArray(<<<<FoodRow, RentRow, RootRow, CashRow, EmptyRow, BadRow>>, <<>>>>),
          JsArray(<<<<FoodRow, PetsRow, RentRow>>, <<Amount(-12000)>>>>)}

\* Compound (multi-period) reports.  Column k starts on the first day of the
\* k-th month counted from 2025-09.
PeriodStart(k) ==
    [y |-> 2025 + ((k + 7) \div 12), m |-> ((k + 7) % 12) + 1, d |-> 1]

PeriodEnd(k) == PeriodStart(k + 1)

DatePair(k, tag) ==
    IF tag = "Exact"
    THEN <<ExactDate(PeriodStart(k)), ExactDate(PeriodEnd(k))>>
    ELSE <<ModifiedJulianDay(PeriodStart(k)), ModifiedJulianDay(PeriodEnd(k))>>

\* A column whose day number is the first one beyond the range of a Date:
\* (contents - 2440587.5) days is half a day more than MaxTimeDays.
FarDatePair ==
    <<[tag |-> "ModifiedJulianDay", contents |-> JsNumber(MaxTimeDays + 2440588)],
      [tag |-> "ModifiedJulianDay", contents |-> JsNumber(MaxTimeDays + 2440619)]>>

\* Rows of n columns: one amount per column, sparse, and shorter than n.
FullRow(name, n, q) ==
    ReportRow(name, [k \in 1 .. n |-> <<Amount(q)>>], <<Amount(n * q)>>)

SparseRow(name, n, q) ==
    ReportRow(name, [k \in 1 .. n |-> IF k % 2 = 1 THEN <<Amount(q)>> ELSE <<>>],
              <<Amount(q)>>)

ShortRow(name, n, q) ==
    ReportRow(name, [k \in 1 .. (IF n = 0 THEN 0 ELSE n - 1) |-> <<Amount(q)>>],
              <<Amount(q)>>)

\* A row whose first column's amount has no floatingPoint.
UnquantifiedRow(name, n, q) ==
    ReportRow(name, [k \in 1 .. n |-> IF k = 1 THEN <<NoFloatingPoint>> ELSE <<Amount(q)>>],
              <<Amount(q)>>)

TrendRows(n) ==
    {FullRow(<<"salary">>, n, 24001), FullRow(<<"refund">>, n, -8001),
     SparseRow(<<"bonus">>, n, 24000), ShortRow(<<"gift">>, n, -8800)}

CompoundReport(dates, revenueRows, expenseRows, revenueTotal, expenseTotal, grand) ==
    JsObject([cbrTitle |-> "Income Statement",
              cbrDates |-> dates,
              cbrSubreports |-> <<Subreport("Revenues", revenueRows, revenueTotal, TRUE),
                                  Subreport("Expenses", expenseRows, expenseTotal, FALSE)>>,
              cbrTotals |-> ReportRow(<<>>, <<>>, grand)])

OneSubreport ==
    JsObject([cbrTitle |-> "Income Statement",
              cbrDates |-> <<DatePair(1, "Exact")>>,
              cbrSubreports |-> <<Subreport("Revenues", <<>>, <<>>, TRUE)>>,
              cbrTotals |-> ReportRow(<<>>, <<>>, <<>>)])

TrendsReports ==
    {CompoundReport([k \in 1 .. n |-> DatePair(k, tag)], rev, exp, <<>>, <<>>, <<>>) :
        <<n, tag, rev, exp>> \in
            UNION {{<<n, tag, rev, exp>> :
                      tag \in {"Exact", "ModifiedJulianDay"},
                      rev \in SeqsUpTo(TrendRows(n), MaxSubRows),
                      exp \in SeqsUpTo(TrendRows(n), MaxSubRows)} : n \in 0 .. MaxCols}}
    \cup {CompoundReport(<<DatePair(1, "Exact")>>,
                         <<ReportRow(<<"salary">>, <<<<NoQuantity>>>>, <<>>)>>,
                         <<>>, <<>>, <<>>, <<>>),
          CompoundReport(<<DatePair(1, "ModifiedJulianDay"), FarDatePair>>,
                         <<FullRow(<<"salary">>, 2, 24001)>>, <<>>, <<>>, <<>>, <<>>),
          CompoundReport(<<DatePair(1, "Exact"), DatePair(2, "Exact")>>,
                         <<UnquantifiedRow(<<"salary">>, 2, 24001),
                           ShortRow(<<"gift">>, 2, -8800)>>,
                         <<SparseRow(<<"rent">>, 2, 9600)>>, <<>>, <<>>, <<>>),
          CompoundReport(<<DatePair(1, "Exact"), DatePair(2, "Exact")>>,
                         <<FullRow(<<"salary">>, 2, 24001)>>,
                         <<ShortRow(<<"rent">>, 2, 9600),
                           UnquantifiedRow(<<"food">>, 2, 2400)>>, <<>>, <<>>, <<>>),
          OneSubreport}

\* Single-period reports of the summary: the totals and, apart from them,
\* the rows.
SummaryRows == {<<>>, <<ReportRow(<<"other">>, <<<<Amount(16)>>>>, <<Amount(16)>>)>>}

PositionReports ==
    {CompoundReport(<<>>, rows, <<>>, <<>>, <<>>, total) :
        rows \in SummaryRows,
        total \in {<<>>, <<Amount(8001)>>, <<Amount(-401)>>}}
    \cup {JsObject([cbrTitle |-> "Balance Sheet"]),
          CompoundReport(<<>>, <<>>, <<>>, <<>>, <<>>, <<NoFloatingPoint>>)}

ActivityReports ==
    {CompoundReport(<<>>, rows, rows, revenueTotal, expenseTotal, <<>>) :
        rows \in SummaryRows,
        revenueTotal \in {<<>>, <<Amount(400)>>, <<Amount(-241)>>},
        expenseTotal \in {<<>>, <<Amount(320)>>, <<Amount(-481)>>}}
    \cup {OneSubreport,
          CompoundReport(<<>>, <<>>, <<>>, <<Amount(-2944)>>, <<Amount(-2933)>>, <<>>),
          CompoundReport(<<>>, <<>>, <<>>, <<NoFloatingPoint>>, <<Amount(320)>>, <<>>),
          CompoundReport(<<>>, <<>>, <<>>, <<Amount(400)>>, <<NoFloatingPoint>>, <<>>)}

\* The parsed values the command can print, by tool and position.
Reports(t, k) ==
    CASE t = "spending-breakdown" -> BreakdownReports \cup {OneSubreport}
      [] t = "financial-trends" -> TrendsReports \cup {JsArray(<<<<FoodRow>>, <<>>>>)}
      [] t = "financial-summary" /\ k = 1 -> PositionReports
      [] t = "financial-summary" /\ k = 2 -> ActivityReports
      [] t = "financial-summary" /\ k = 3 ->
            RankingReports \cup {OneSubreport}

\* Every way one run of the command can end.  White space pads the JSON
\* text of a value to any size from its own up: the reports come at the
\* largest size execSync returns, with nothing on the standard error; two
\* runs go one byte beyond it, one on the standard output alone and one by
\* a byte of standard error beside JSON text that would fit.
Runs(t, k) ==
    {Failed("exit"), Failed("timeout"), Ran(OtherText(MaxBuffer), 0),
     Ran(JsonText(JsArray(<<<<>>, <<>>>>), MaxBuffer + 1), 0),
     Ran(JsonText(JsArray(<<<<>>, <<>>>>), MaxBuffer), 1)}
    \cup {Ran(JsonText(v, MaxBuffer), 0) : v \in Reports(t, k)}

\* What the run did, as the log keeps it.
RunKind(run) ==
    IF run.status # "ok" THEN run.status
    ELSE IF Buffered(run) > MaxBuffer THEN "maxbuffer"
    ELSE IF run.stdout.parses THEN "json" ELSE "nonjson"

----------------------------------------------------------------------------
(* The server: one tool call at a time                                     *)

Init ==
    /\ IdleHandler
    /\ amounts = <<>>
    /\ extracted = Pending
    /\ calDate = [y |-> 1970, m |-> 1, d |-> 1]
    /\ dateKeys = [exact |-> <<>>, dayOffset |-> <<>>]
    /\ earlier = NoInvocation

\* The transport calls a tool handler with validated arguments.
Invoke(t, a) ==
    /\ pc = "idle"
    /\ pc' = "fetch"
    /\ tool' = t
    /\ args' = a
    /\ UNCHANGED <<cmds, resp, outcome, reply, amountVars, dateVars, earlier>>

\* A command that failed is run again.
Fetch_RetryFailed ==
    /\ pc = "fetch"
    /\ LET k == Len(resp) + 1
       IN  \E run \in Runs(tool, k) :
             LET completion == hledgerJson(run)
             IN  /\ cmds' = Append(cmds, [command |-> Commands(tool, args)[k],
                                          ran |-> RunKind(run),
                                          run |-> run])
                 /\ IF completion.type = "throw"
                    THEN /\ outcome' = outcome
                         /\ pc' = "fetch"
                         /\ resp' = resp
                    ELSE /\ resp' = Append(resp, completion.value)
                         /\ pc' = IF k = Len(Commands(tool, args))
                                  THEN "decode" ELSE "fetch"
                         /\ outcome' = outcome
    /\ UNCHANGED <<tool, args, reply, amountVars, dateVars, earlier>>

\* The decoder runs its next command through hledgerJson and the run ends
\* as given; a throw leaves the decoder and lands in the handler's catch.
FetchRun(run) ==
    /\ pc = "fetch"
    /\ LET k == Len(cmds) + 1
           completion == hledgerJson(run)
       IN  /\ cmds' = Append(cmds, [command |-> Commands(tool, args)[k],
                                    ran |-> RunKind(run),
                                    run |-> run])
           /\ IF completion.type = "throw"
              THEN /\ outcome' = completion
                   /\ pc' = "respond"
                   /\ resp' = resp
              ELSE /\ resp' = Append(resp, completion.value)
                   /\ pc' = IF k = Len(Commands(tool, args))
                            THEN "decode" ELSE "fetch"
                   /\ outcome' = outcome
    /\ UNCHANGED <<tool, args, reply, amountVars, dateVars, earlier>>

Fetch ==
    /\ pc = "fetch"
    /\ \E run \in Runs(tool, Len(cmds) + 1) : FetchRun(run)

\* The decoder computes its result from the parsed reports.
DecodeStep ==
    /\ pc = "decode"
    /\ outcome' = Decode(tool, args, resp)
    /\ pc' = "respond"
    /\ UNCHANGED <<tool, args, cmds, resp, reply, amountVars, dateVars, earlier>>

\* The handler returns to the transport.
Respond ==
    /\ pc = "respond"
    /\ reply' = Handler(tool, args, outcome)
    /\ pc' = "done"
    /\ UNCHANGED <<tool, args, cmds, resp, outcome, amountVars, dateVars, earlier>>

\* The last parsed report of the call is kept for the next one.
Reset_KeepsLastReport ==
    /\ pc = "done"
    /\ pc' = "idle" /\ tool' = "none" /\ args' = [period |-> ""]
    /\ cmds' = <<>> /\ outcome' = Pending /\ reply' = Pending
    /\ resp' = IF resp = <<>> THEN <<>> ELSE <<resp[Len(resp)]>>
    /\ UNCHANGED <<amountVars, dateVars>>

\* The handler has returned: nothing of the call is kept (the decoders work
\* on locals, and the module has no mutable state).
Reset ==
    /\ pc = "done"
    /\ pc' = "idle" /\ tool' = "none" /\ args' = [period |-> ""]
    /\ cmds' = <<>> /\ resp' = <<>> /\ outcome' = Pending /\ reply' = Pending
    /\ UNCHANGED <<amountVars, dateVars>>

Finish == Reset /\ UNCHANGED earlier

Next ==
    \/ \E t \in Tools : \E a \in ToolArgs(t) : Invoke(t, a)
    \/ Fetch
    \/ DecodeStep
    \/ Respond
    \/ Finish

Spec == Init /\ [][Next]_vars

----------------------------------------------------------------------------
(* Tool calls one after another, one of the earlier ones remembered        *)

\* The reports of the replayed calls: two per command.
ReplayReports(t, k) ==
    CASE t = "spending-breakdown" ->
            {JsArray(<<<<FoodRow, RefundRow>>, <<Amount(-1600)>>>>),
             JsArray(<<<<FoodRow, PetsRow, EmptyRow>>, <<Amount(-12000)>>>>)}
      [] t = "financial-trends" ->
            {CompoundReport(<<DatePair(1, "Exact")>>,
                            <<FullRow(<<"salary">>, 1, 24001)>>, <<>>, <<>>, <<>>, <<>>),
             CompoundReport(<<DatePair(1, "ModifiedJulianDay"), FarDatePair>>,
                            <<FullRow(<<"salary">>, 2, 24001)>>, <<>>, <<>>, <<>>, <<>>)}
      [] t = "financial-summary" /\ k = 1 ->
            {CompoundReport(<<>>, <<>>, <<>>, <<>>, <<>>, <<Amount(8001)>>),
             CompoundReport(<<>>, <<>>, <<>>, <<>>, <<>>, <<NoFloatingPoint>>)}
      [] t = "financial-summary" /\ k = 2 ->
            {CompoundReport(<<>>, <<>>, <<>>, <<Amount(400)>>, <<Amount(320)>>, <<>>),
             OneSubreport}
      [] t = "financial-summary" /\ k = 3 ->
            {JsArray(<<<<FoodRow, RentRow>>, <<Amount(-12000)>>>>),
             JsArray(<<<<BadRow, FoodRow>>, <<>>>>)}

ReplayRuns(t, k) ==
    {Failed("exit"), Ran(JsonText(JsArray(<<<<>>, <<>>>>), MaxBuffer), 1)}
        \cup {Ran(JsonText(v, MaxBuffer), 0) : v \in ReplayReports(t, k)}

ReplayFetch ==
    /\ pc = "fetch"
    /\ \E run \in ReplayRuns(tool, Len(cmds) + 1) : FetchRun(run)

\* The call that has just ended becomes the remembered one.
Remember ==
    /\ Reset
    /\ earlier' = [tool |-> tool, args |-> args, cmds |-> cmds,
                   outcome |-> outcome, reply |-> reply]

NextReplay ==
    \/ \E t \in Tools : \E a \in ToolArgs(t) : Invoke(t, a)
    \/ ReplayFetch
    \/ DecodeStep
    \/ Respond
    \/ Finish
    \/ Remember

SpecReplay == Init /\ [][NextReplay]_vars

----------------------------------------------------------------------------
(* The pure functions, applied to inputs drawn from bounded sets           *)

MaxAmounts == 2
MaxQty == 9

Quantities == (-MaxQty .. MaxQty) \cup {24001, -8001, 43200, -2399}
Entries == {Amount(q) : q \in Quantities} \cup {NoQuantity, NoFloatingPoint}
AmountLists == UNION {[1 .. n -> Entries] : n \in 0 .. MaxAmounts}

Years == {1858, 1969, 1970, 2000, 2024, 2025}
Dates == {[y |-> y, m |-> m, d |-> d] :
            y \in Years, m \in 1 .. 12, d \in {1, 17, 28}}

InitAmount ==
    /\ amounts \in AmountLists
    /\ extracted = Pending
    /\ calDate = [y |-> 1970, m |-> 1, d |-> 1]
    /\ dateKeys = [exact |-> <<>>, dayOffset |-> <<>>]
    /\ earlier = NoInvocation
    /\ IdleHandler

\* extractAmount(amounts)
ExtractAmount ==
    /\ extracted = Pending
    /\ extracted' = extractAmount(amounts)
    /\ UNCHANGED <<amounts, dateVars, handlerVars, earlier>>

SpecAmount == InitAmount /\ [][ExtractAmount]_vars

InitDate ==
    /\ calDate \in Dates
    /\ dateKeys = [exact |-> <<>>, dayOffset |-> <<>>]
    /\ earlier = NoInvocation
    /\ amounts = <<>>
    /\ extracted = Pending
    /\ IdleHandler

\* dateToYearMonth(pair[0].contents) of a v1.51+ period date
NormalizeExact ==
    /\ dateKeys.exact = <<>>
    /\ dateKeys' = [dateKeys EXCEPT !.exact = dateToYearMonth(ExactDate(calDate).contents)]
    /\ UNCHANGED <<calDate, amountVars, handlerVars, earlier>>

\* dateToYearMonth(pair[0].contents) of an older version's period date
NormalizeDayOffset ==
    /\ dateKeys.dayOffset = <<>>
    /\ dateKeys' = [dateKeys EXCEPT
                      !.dayOffset = dateToYearMonth(ModifiedJulianDay(calDate).contents)]
    /\ UNCHANGED <<calDate, amountVars, handlerVars, earlier>>

NextDate == NormalizeExact \/ NormalizeDayOffset

SpecDate == InitDate /\ [][NextDate]_vars

----------------------------------------------------------------------------
(* Claims                                                                  *)

\* C1: extractAmount of the empty sequence is exactly 0; of a non-empty
\* sequence whose first entry carries a quantity it is that quantity rounded
\* to the nearest cent (at most half a cent away), whatever entries follow.
C1_ExtractFirstRounded ==
    extracted # Pending =>
        /\ amounts = <<>> => extracted = Return(0)
        /\ (/\ amounts # <<>>
            /\ "aquantity" \in DOMAIN amounts[1]
            /\ "floatingPoint" \in DOMAIN amounts[1].aquantity) =>
              /\ extracted.type = "return"
              /\ Abs(2 * extracted.value - 25 * amounts[1].aquantity.floatingPoint) <= 1

\* C1 witness: a two-entry sequence with different quantities was extracted,
\* and the result is the rounding of the first one only.
C1_Witness ==
    /\ extracted = Return(13)
    /\ Len(amounts) = 2
    /\ amounts[1] = Amount(1)
    /\ amounts[2] = Amount(-5)

\* C2: the key of the ISO date string of D equals the key of the Modified
\* Julian Day of D, and both are the YYYY-MM of D.
C2_SameKeyBothEncodings ==
    (dateKeys.exact # <<>> /\ dateKeys.dayOffset # <<>>) =>
        /\ dateKeys.exact = dateKeys.dayOffset
        /\ dateKeys.dayOffset
             = Return(PadDigits(calDate.y, 4) \o <<"-">> \o PadDigits(calDate.m, 2))

\* The call has left the decoder: its completion is known.
Decoded(t) == tool = t /\ pc \in {"respond", "done"}

\* C3: getSpendingBreakdown raises no error on a report of rows and totals
\* whose entries carry an amount object, also for total = 0; it returns
\* total = |extractAmount(totals)| and, per row, amount = |extractAmount(row
\* amounts)| with percentage = amount / total * 100 rounded to 2 decimals
\* (the hundredth nearest to the exact value, a tie going up) when total > 0
\* and exactly 0 when total = 0.
C3_BreakdownAmountsAndPercentages ==
    (Decoded("spending-breakdown") /\ resp # <<>> /\ resp[1].json = "array") =>
        LET rows   == resp[1].items[1]
            totals == resp[1].items[2]
            res    == outcome.value
        IN  /\ (/\ extractAmount(totals).type # "throw"
                /\ \A k \in 1 .. Len(rows) : extractAmount(rows[k][4]).type # "throw")
                   => outcome.type = "return"
            /\ outcome.type = "return" =>
                  /\ res.total = MathAbs(AmountOf(totals))
                  /\ Len(res.categories) = Len(rows)
                  /\ \A k \in 1 .. Len(rows) :
                        LET c == res.categories[k]
                        IN  /\ c.amount = MathAbs(AmountOf(rows[k][4]))
                            /\ res.total = Num(0) => c.percentage = Num(0)
                            /\ (Positive(res.total) /\ ~c.amount.nan) =>
                                  c.percentage
                                    = Num(MathRound(c.amount.n * 10000, res.total.n))

\* C4's sum: the extracted amounts of the rows' entries for column i, a row
\* without an entry for the column counting as an empty list.
RECURSIVE C4_ColumnSum(_, _)
C4_ColumnSum(rows, i) ==
    IF rows = <<>> THEN Num(0)
    ELSE Plus(AmountOf(IF i <= Len(rows[1].prrAmounts)
                       THEN rows[1].prrAmounts[i] ELSE <<>>),
              C4_ColumnSum(Tail(rows), i))

\* C4: for every period column, income is the absolute value of the sum of
\* the revenue rows' extracted amounts (a missing column entry counting as
\* empty), expenses the same over the expense rows, net = income - expenses;
\* the sum is of the signed amounts, so non-negative revenue rows give their
\* plain sum.
C4_TrendColumnTotals ==
    (Decoded("financial-trends") /\ outcome.type = "return") =>
        LET cbr == resp[1].fields
            rev == cbr.cbrSubreports[1][2].prRows
            exp == cbr.cbrSubreports[2][2].prRows
            ps  == outcome.value.periods
        IN  \A i \in 1 .. Len(ps) :
              /\ ps[i].income = MathAbs(C4_ColumnSum(rev, i))
              /\ ps[i].expenses = MathAbs(C4_ColumnSum(exp, i))
              /\ ps[i].net = Minus(ps[i].income, ps[i].expenses)
              /\ (\A k \in 1 .. Len(rev) :
                     (i <= Len(rev[k].prrAmounts) /\ rev[k].prrAmounts[i] # <<>>) =>
                        (/\ "floatingPoint" \in DOMAIN rev[k].prrAmounts[i][1].aquantity
                         /\ rev[k].prrAmounts[i][1].aquantity.floatingPoint >= 0)) =>
                   ps[i].income = C4_ColumnSum(rev, i)

\* C4 witness: a column whose two revenue rows have opposite signs
\* (3000.13 and -1000.12): income is 2000.01, not 4000.25.
C4_Witness ==
    /\ Decoded("financial-trends")
    /\ outcome.type = "return"
    /\ Len(resp[1].fields.cbrSubreports[1][2].prRows) = 2
    /\ \E i \in 1 .. Len(outcome.value.periods) :
          /\ outcome.value.periods[i].income = Num(200001)
          /\ outcome.value.periods[i].expenses = Num(100012)
          /\ outcome.value.periods[i].net = Num(99989)

\* C5: savingsRate is (totalIncome - totalExpenses) / totalIncome * 100
\* rounded to 2 decimals (the hundredth nearest to the exact value, a tie
\* going up) when totalIncome > 0 and exactly 0 when totalIncome = 0;
\* cashflow is totalIncome - totalExpenses in every case.
C5_SavingsRateAndCashflow ==
    (Decoded("financial-summary") /\ outcome.type = "return") =>
        LET r == outcome.value
        IN  /\ r.totalIncome = Num(0) => r.savingsRate = Num(0)
            /\ (Positive(r.totalIncome) /\ ~r.totalExpenses.nan) =>
                  r.savingsRate
                    = Num(MathRound((r.totalIncome.n - r.totalExpenses.n) * 10000,
                                    r.totalIncome.n))
            /\ r.cashflow = Minus(r.totalIncome, r.totalExpenses)

\* C6: netWorth is the extraction of the position report's grand total and
\* totalIncome / totalExpenses those of the two subreports' own totals: a
\* position or activity report that differs from the one decoded only in
\* its rows gives the same netWorth, totalIncome and totalExpenses.
C6_TotalsNotRows ==
    (Decoded("financial-summary") /\ outcome.type = "return") =>
        LET r == outcome.value
            same(o) == /\ o.type = "return"
                       /\ o.value.netWorth = r.netWorth
                       /\ o.value.totalIncome = r.totalIncome
                       /\ o.value.totalExpenses = r.totalExpenses
        IN  /\ r.netWorth = AmountOf(resp[1].fields.cbrTotals.prrTotal)
            /\ \A j \in 1 .. 2 :
                  (IF j = 1 THEN r.totalIncome ELSE r.totalExpenses)
                     = MathAbs(AmountOf(resp[2].fields.cbrSubreports[j][2].prTotals.prrTotal))
            /\ \A bs \in PositionReports :
                  (/\ "cbrTotals" \in DOMAIN bs.fields
                   /\ bs.fields.cbrTotals = resp[1].fields.cbrTotals) =>
                      same(DecodeSummary(bs, resp[2], resp[3]))
            /\ \A is \in ActivityReports :
                  (/\ Len(is.fields.cbrSubreports) = 2
                   /\ \A j \in 1 .. 2 :
                         is.fields.cbrSubreports[j][2].prTotals
                            = resp[2].fields.cbrSubreports[j][2].prTotals) =>
                      same(DecodeSummary(resp[1], is, resp[3]))

\* C6 witness: a summary decoded from a position report with a row of 2.00
\* and a grand total of 1000.13, and an activity report with rows.
C6_Witness ==
    /\ Decoded("financial-summary")
    /\ outcome.type = "return"
    /\ resp[1].fields.cbrSubreports[1][2].prRows # <<>>
    /\ resp[2].fields.cbrSubreports[2][2].prRows # <<>>
    /\ outcome.value.netWorth = Num(100013)
    /\ outcome.value.totalIncome = Num(5000)

\* C7: topExpenses is the first min(5, n) rows of the ranking report in the
\* report's order, each row giving its name without a leading "expenses:"
\* and the absolute value of its extracted amount.
C7_TopFiveInOrder ==
    (Decoded("financial-summary") /\ outcome.type = "return") =>
        LET rows == resp[3].items[1]
            top  == outcome.value.topExpenses
        IN  /\ Len(top) = Min(5, Len(rows))
            /\ \A k \in 1 .. Len(top) :
                  /\ top[k].amount = MathAbs(AmountOf(rows[k][4]))
                  /\ top[k].name =
                        IF Len(rows[k][1]) >= 2 /\ rows[k][1][1] = "expenses"
                        THEN Tail(rows[k][1]) ELSE rows[k][1]

\* C7 witness: six rows, the larger amounts after a smaller one: five are
\* kept, in the report's order.
C7_Witness ==
    /\ Decoded("financial-summary")
    /\ outcome.type = "return"
    /\ Len(resp[3].items[1]) = 6
    /\ Len(outcome.value.topExpenses) = 5
    /\ outcome.value.topExpenses[1] = [name |-> <<"expenses">>, amount |-> Num(12)]
    /\ outcome.value.topExpenses[2] = [name |-> <<"rent">>, amount |-> Num(120000)]

\* C8: the summary handler returns a result only after all three commands
\* ran and printed JSON; once a command failed the call ends in that error
\* and nothing of a summary is returned.
C8_NoPartialSummary ==
    (tool = "financial-summary" /\ pc = "done") =>
        /\ reply.isError = FALSE =>
              /\ Len(cmds) = 3
              /\ \A k \in 1 .. 3 : cmds[k].ran = "json"
        /\ (\E k \in 1 .. Len(cmds) : cmds[k].ran # "json") =>
              /\ outcome.type = "throw"
              /\ reply.isError = TRUE
              /\ "structuredContent" \notin DOMAIN reply

\* C8 witness: position and activity reports fetched, the ranking command
\* timed out, the call ended in an error.
C8_Witness ==
    /\ tool = "financial-summary" /\ pc = "done"
    /\ Len(cmds) = 3
    /\ cmds[1].ran = "json" /\ cmds[2].ran = "json" /\ cmds[3].ran = "timeout"
    /\ reply.isError = TRUE

\* C9 as stated: a non-zero exit, a timeout and non-JSON output all end in
\* the upstream-failure error kind ("hledger command failed"), and that kind
\* is not the kind raised for JSON of an unexpected shape.
C9_AllUpstreamFailuresOneKind ==
    (pc \in {"respond", "done"} /\ cmds # <<>>) =>
        LET last == cmds[Len(cmds)].ran
            upstream(e) == e.class = "Error" /\ e.message[1] = "hledger command failed: "
        IN  /\ last \in {"exit", "timeout", "nonjson"} =>
                  outcome.type = "throw" /\ upstream(outcome.error)
            /\ (last = "json" /\ outcome.type = "throw") => ~upstream(outcome.error)

\* C9 amended: a non-zero exit and a timeout end in the upstream-failure
\* error kind ("hledger command failed"); non-JSON output ends in the
\* SyntaxError of JSON.parse, which is not of that kind; the error raised
\* when parsed JSON does not match the report shape is not of that kind
\* either.
C9_UpstreamParseShapeKinds ==
    (pc \in {"respond", "done"} /\ cmds # <<>>) =>
        LET last == cmds[Len(cmds)].ran
            upstream(e) == e.class = "Error" /\ e.message[1] = "hledger command failed: "
        IN  /\ last \in {"exit", "timeout"} =>
                  outcome.type = "throw" /\ upstream(outcome.error)
            /\ last = "nonjson" =>
                  /\ outcome.type = "throw"
                  /\ outcome.error.class = "SyntaxError"
                  /\ ~upstream(outcome.error)
            /\ (last = "json" /\ outcome.type = "throw") => ~upstream(outcome.error)

\* C9 witness: a command printed text that is not JSON and the decoder ended
\* in a SyntaxError.
C9_Witness ==
    /\ pc = "respond"
    /\ cmds # <<>>
    /\ cmds[Len(cmds)].ran = "nonjson"
    /\ outcome.type = "throw"
    /\ outcome.error.class = "SyntaxError"

\* C10: whatever the decoder did (returned, failed upstream, failed on the
\* shape), the handler returns exactly one of: the decoder's whole result as
\* structuredContent with isError false, or one error text with isError true
\* and no structuredContent.
C10_ResultOrSingleError ==
    pc = "done" =>
        \/ /\ outcome.type = "return"
           /\ reply.isError = FALSE
           /\ reply.structuredContent = outcome.value
           /\ DOMAIN outcome.value =
                 (CASE tool = "spending-breakdown" -> {"categories", "total", "period"}
                    [] tool = "financial-trends" -> {"periods"}
                    [] tool = "financial-summary" ->
                         {"netWorth", "totalIncome", "totalExpenses",
                          "savingsRate", "cashflow", "topExpenses"})
           /\ Len(reply.content) = 1
        \/ /\ outcome.type = "throw"
           /\ reply.isError = TRUE
           /\ DOMAIN reply = {"content", "isError"}
           /\ Len(reply.content) = 1
           /\ reply.content[1].text.message = outcome.error.message

\* C10 witness: the trends handler answered JSON of the wrong shape with a
\* single error text.
C10_Witness ==
    /\ pc = "done"
    /\ tool = "financial-trends"
    /\ cmds[1].ran = "json"
    /\ outcome.type = "throw"
    /\ reply.isError = TRUE

\* The first quantity of an amount list, 0 for none (in eighths).
C11_Quantity(a) == IF a = <<>> THEN 0 ELSE a[1].aquantity.floatingPoint

RECURSIVE C11_RowQuantities(_)
C11_RowQuantities(rows) ==
    IF rows = <<>> THEN 0
    ELSE C11_Quantity(rows[1][4]) + C11_RowQuantities(Tail(rows))

RECURSIVE C11_PercentageSum(_)
C11_PercentageSum(cats) ==
    IF cats = <<>> THEN 0 ELSE cats[1].percentage.n + C11_PercentageSum(Tail(cats))

\* C11: for every balance report with total > 0 (the totals entry being the
\* sum of the rows, as hledger prints it), the percentages of the result sum
\* to at most 100 plus half a hundredth per row of rounding.
C11_PercentagesAtMost100 ==
    (/\ Decoded("spending-breakdown")
     /\ outcome.type = "return"
     /\ Positive(outcome.value.total)
     /\ \A k \in 1 .. Len(outcome.value.categories) :
            ~outcome.value.categories[k].amount.nan
     /\ C11_RowQuantities(resp[1].items[1]) = C11_Quantity(resp[1].items[2])) =>
        C11_PercentageSum(outcome.value.categories)
            <= 10000 + Len(outcome.value.categories)

\* The revenue and expense rows of the parsed income statement.
C12_Rows(k) == resp[1].fields.cbrSubreports[k][2].prRows

\* C12: getFinancialTrends returns exactly one period per date column, and
\* the k-th period carries the key of the k-th column, whatever the number
\* of rows of the two subreports.
C12_OnePeriodPerColumnInOrder ==
    (Decoded("financial-trends") /\ outcome.type = "return") =>
        LET columns == resp[1].fields.cbrDates
            periods == outcome.value.periods
        IN  /\ Len(periods) = Len(columns)
            /\ \A k \in 1 .. Len(columns) :
                   periods[k].date = dateToYearMonth(columns[k][1].contents).value

C12_Witness ==
    /\ Decoded("financial-trends")
    /\ outcome.type = "return"
    /\ Len(resp[1].fields.cbrDates) = 2
    /\ Len(C12_Rows(1)) = 0
    /\ Len(C12_Rows(2)) = 2
    /\ outcome.value.periods[1].date = <<"2", "0", "2", "5", "-", "0", "9">>
    /\ outcome.value.periods[2].date = <<"2", "0", "2", "5", "-", "1", "0">>

\* A row has data for column i: the entry exists and is not an empty array.
C13_HasData(row, i) == i <= Len(row.prrAmounts) /\ row.prrAmounts[i] # <<>>

\* The sum of the amounts of the rows that have data for column i.
RECURSIVE C13_SumPresent(_, _)
C13_SumPresent(rows, i) ==
    IF rows = <<>> THEN Num(0)
    ELSE Plus(IF C13_HasData(rows[1], i)
              THEN AmountOf(rows[1].prrAmounts[i]) ELSE Num(0),
              C13_SumPresent(Tail(rows), i))

\* The parsed report is an income statement with two subreports in which
\* every column carries a date a Date can hold.
C13_WellFormed ==
    /\ Decoded("financial-trends")
    /\ resp # <<>>
    /\ resp[1].json = "object"
    /\ "cbrDates" \in DOMAIN resp[1].fields
    /\ \A k \in 1 .. Len(resp[1].fields.cbrDates) :
           dateToYearMonth(resp[1].fields.cbrDates[k][1].contents).type = "return"
    /\ Len(resp[1].fields.cbrSubreports) >= 2

\* Some entry the decoder reads is there and makes extractAmount throw.
C13_PresentEntryThrows ==
    \E s \in 1 .. 2 : \E k \in 1 .. Len(C12_Rows(s)) :
        \E i \in 1 .. Len(resp[1].fields.cbrDates) :
            /\ C13_HasData(C12_Rows(s)[k], i)
            /\ extractAmount(C12_Rows(s)[k].prrAmounts[i]).type = "throw"

\* C13: in getFinancialTrends a row with fewer amounts than columns, or with
\* an empty array for a column, adds 0 to that column and raises no error:
\* the decoder fails only on an entry that is there, and what it returns
\* sums, per column, the entries that are there, whatever they hold; a
\* column for which no row of either subreport has data has income 0,
\* expenses 0 and net 0.
C13_MissingAmountsCountZero ==
    C13_WellFormed =>
        /\ outcome.type = "throw" <=> C13_PresentEntryThrows
        /\ outcome.type = "return" =>
              \A i \in 1 .. Len(outcome.value.periods) :
                 LET q == outcome.value.periods[i]
                 IN  /\ q.income = MathAbs(C13_SumPresent(C12_Rows(1), i))
                     /\ q.expenses = MathAbs(C13_SumPresent(C12_Rows(2), i))
                     /\ (\A s \in 1 .. 2 : \A k \in 1 .. Len(C12_Rows(s)) :
                             ~C13_HasData(C12_Rows(s)[k], i))
                        => (q.income = Num(0) /\ q.expenses = Num(0) /\ q.net = Num(0))

\* C13 witness: a short row beside a row whose entry has no floatingPoint,
\* and an expense row with an empty array for the second column: the first
\* column's income is NaN, the second's is the one amount there, and the
\* second column's expenses are 0.
C13_Witness ==
    /\ C13_WellFormed
    /\ outcome.type = "return"
    /\ Len(outcome.value.periods) = 2
    /\ Len(C12_Rows(1)) = 2
    /\ Len(C12_Rows(1)[2].prrAmounts) = 1
    /\ outcome.value.periods[1].income = NaN
    /\ outcome.value.periods[2].income = Num(300013)
    /\ outcome.value.periods[2].expenses = Num(0)

\* C14: the categories of getSpendingBreakdown are one per row of the
\* report, in the report's row order, the k-th made from the k-th row; its
\* name is the row's fullName without a leading "expenses:", and a name that
\* does not start with "expenses:" is kept as it is.
C14_OneCategoryPerRowInOrder ==
    (Decoded("spending-breakdown") /\ outcome.type = "return") =>
        LET rows == resp[1].items[1]
            cats == outcome.value.categories
        IN  /\ Len(cats) = Len(rows)
            /\ \A k \in 1 .. Len(rows) :
                  /\ cats[k].amount = MathAbs(AmountOf(rows[k][4]))
                  /\ cats[k].name =
                        IF Len(rows[k][1]) >= 2 /\ rows[k][1][1] = "expenses"
                        THEN Tail(rows[k][1]) ELSE rows[k][1]

\* C14 witness: three rows, the larger amount last; the names with, without
\* and with an inner "expenses" segment.
C14_Witness ==
    /\ Decoded("spending-breakdown")
    /\ outcome.type = "return"
    /\ resp[1].items[1] = <<CashRow, FoodRow, RentRow>>
    /\ outcome.value.categories[1].name = <<"assets", "expenses", "cash">>
    /\ outcome.value.categories[2] =
           [name |-> <<"food">>, amount |-> Num(30000), percentage |-> Num(2000)]
    /\ outcome.value.categories[3].name = <<"rent">>
    /\ outcome.value.categories[3].amount = Num(120000)

\* The first entry of the extracted sequence carries a quantity.
C15_Extracted ==
    /\ extracted # Pending
    /\ amounts # <<>>
    /\ "aquantity" \in DOMAIN amounts[1]
    /\ "floatingPoint" \in DOMAIN amounts[1].aquantity

\* C15 as the claim states it: extractAmount rounds to the nearest cent, a
\* quantity halfway between two cent values going to the one of larger
\* magnitude, for negative quantities as for positive ones.
C15_HalfAwayFromZero ==
    C15_Extracted =>
        LET q == amounts[1].aquantity.floatingPoint
            v == extracted.value
        IN  /\ extracted.type = "return"
            /\ Abs(2 * v - 25 * q) <= 1
            /\ (q % 2 = 1) => Abs(2 * v) = Abs(25 * q) + 1

\* C15: extractAmount rounds to the nearest cent, a quantity halfway between
\* two cent values going to the larger of the two values: for a negative
\* quantity that is the one of smaller magnitude (-0.125 gives -0.12).
C15_HalfTowardPositive ==
    C15_Extracted =>
        LET q == amounts[1].aquantity.floatingPoint
            v == extracted.value
        IN  /\ extracted.type = "return"
            /\ 2 * v - 1 <= 25 * q
            /\ 25 * q < 2 * v + 1

\* C15 witness: -0.125 was extracted and gave -0.12.
C15_Witness ==
    /\ amounts # <<>>
    /\ amounts[1] = Amount(-1)
    /\ extracted = Return(-12)

\* C16: extractAmount of a non-empty sequence whose first entry lacks the
\* quantity (aquantity, or its floatingPoint) ends in an error and returns
\* no number, NaN included; extractAmount of the empty sequence raises no
\* error.
C16_MissingQuantityThrows ==
    extracted # Pending =>
        /\ amounts = <<>> => extracted.type = "return"
        /\ (/\ amounts # <<>>
            /\ \/ "aquantity" \notin DOMAIN amounts[1]
               \/ "floatingPoint" \notin DOMAIN amounts[1].aquantity) =>
              extracted.type = "throw"

\* The gateway responses of a logged call: how each of its commands ended.
C17_Responses(log) == [k \in 1 .. Len(log) |-> log[k].run]

\* The call that has replied repeats an earlier one: same tool, same
\* arguments, same gateway responses.
C17_Repeats ==
    /\ pc = "done"
    /\ earlier.tool = tool
    /\ earlier.args = args
    /\ C17_Responses(earlier.cmds) = C17_Responses(cmds)

\* C17: a call given the same gateway responses as an earlier call of the
\* same decoder, whatever calls came in between, returns the same result
\* (or fails with the same error) and replies the same; between two calls
\* nothing is kept.
C17_SameResponsesSameResult ==
    /\ pc = "idle" => IdleHandler
    /\ C17_Repeats => (outcome = earlier.outcome /\ reply = earlier.reply)

\* C17 witness: a summary call has replied with a result, as an earlier
\* call given the same three reports did.
C17_Witness ==
    /\ C17_Repeats
    /\ tool = "financial-summary"
    /\ Len(cmds) = 3
    /\ reply.isError = FALSE
    /\ reply = earlier.reply
    /\ reply.structuredContent.netWorth = NaN

\* The reports a decoder asks for, in the order of its code.
C18_Order ==
    CASE tool = "spending-breakdown" -> <<"bal">>
      [] tool = "financial-trends"   -> <<"is">>
      [] tool = "financial-summary"  -> <<"bs", "is", "bal">>
      [] OTHER                       -> <<>>

\* C18: within one invocation no command is run twice: the commands run so
\* far are the first ones of the decoder's list (one for getSpendingBreakdown
\* and getFinancialTrends; bs, is, bal for getFinancialSummary), only the
\* last of them can have failed, and when it has, the invocation ends in
\* that failure; a decoder that reached its decoding ran all of its list.
C18_EachCommandOnceUntilFailure ==
    /\ Len(cmds) <= Len(C18_Order)
    /\ \A k \in 1 .. Len(cmds) :
          /\ cmds[k].command.report = C18_Order[k]
          /\ k < Len(cmds) => cmds[k].ran = "json"
    /\ (cmds # <<>> /\ cmds[Len(cmds)].ran # "json") =>
          /\ pc \in {"respond", "done"}
          /\ outcome = hledgerJson(cmds[Len(cmds)].run)
          /\ outcome.type = "throw"
    /\ (pc \in {"decode", "respond", "done"} /\ cmds[Len(cmds)].ran = "json") =>
          Len(cmds) = Len(C18_Order)

\* C18 witness: getFinancialSummary ran bs, then is, which timed out; the
\* invocation ended there, bal was not run.
C18_Witness ==
    /\ pc = "done"
    /\ tool = "financial-summary"
    /\ Len(cmds) = 2
    /\ cmds[1].command.report = "bs" /\ cmds[1].ran = "json"
    /\ cmds[2].command.report = "is" /\ cmds[2].ran = "timeout"
    /\ reply.isError

\* A Number that is >= 0 (NaN is not).
C19_NonNegative(x) == ~x.nan /\ x.n >= 0

\* C19: in every returned result the breakdown total, every category amount
\* and percentage, every trend income and expenses, the summary totalIncome
\* and totalExpenses and every topExpenses amount are >= 0, whatever the
\* signs of the quantities of the reports, and savingsRate is at most 100.
C19_Signs ==
    (/\ pc \in {"respond", "done"}
     /\ outcome.type = "return") =>
        LET r == outcome.value
        IN  /\ tool = "spending-breakdown" =>
                /\ C19_NonNegative(r.total)
                /\ \A k \in 1 .. Len(r.categories) :
                       /\ C19_NonNegative(r.categories[k].amount)
                       /\ C19_NonNegative(r.categories[k].percentage)
            /\ tool = "financial-trends" =>
                \A i \in 1 .. Len(r.periods) :
                    /\ C19_NonNegative(r.periods[i].income)
                    /\ C19_NonNegative(r.periods[i].expenses)
            /\ tool = "financial-summary" =>
                /\ C19_NonNegative(r.totalIncome)
                /\ C19_NonNegative(r.totalExpenses)
                /\ \A k \in 1 .. Len(r.topExpenses) :
                       C19_NonNegative(r.topExpenses[k].amount)
                /\ ~r.savingsRate.nan /\ r.savingsRate.n <= 10000

====
